---- MODULE Spec2Model ----
(***************************************************************************)
(* Model of the placeholder inliner of the kickstart build scripts:        *)
(* replacePlaceholder (kickstart-scripts/utility.mjs) and its caller       *)
(* replaceHtml (kickstart-scripts/tasks/html-replace.mjs); of the task     *)
(* scripts clean, statics-copy and html-validate under showScriptInfo; and *)
(* of the page scripts: the autoplay control of the hero slider            *)
(* (SliderHero), the image zoom, the throttle and debounce wrappers and    *)
(* the mobile menu. Each part has its specification; the others rest.      *)
(*                                                                         *)
(* Text is a sequence of one-character strings, so that the pattern match, *)
(* the brace stripping, the split on ':' and the path join are computed    *)
(* character by character, as the code computes them.                      *)
(***************************************************************************)
EXTENDS Naturals, Sequences, FiniteSets, TLC

VARIABLES
  files,    \* the fragment tree: path -> [st, text]
  content,  \* htmlCode handed to the outermost replacePlaceholder call
  stack,    \* the active replacePlaceholder calls, outermost first
  result,   \* the string the outermost call returned
  log,      \* what showError reported during the call
  build,    \* the destination file of content in the build directory
  pc,       \* "idle" | "running" | "done" | "written"
  isPlaying,    \* SliderHero: the flag the pause buttons toggle
  commands,     \* SliderHero: the calls of HeroSwiper.autoplay, in order
  lastEntry,    \* SliderHero: isIntersecting of the last observer entry
  textContent,  \* SliderHero: the label of each pause button
  innerWidth,       \* image zoom: window.innerWidth
  overlayHidden,    \* image zoom: overlay.classList contains 'hidden'
  overlayImageSrc,  \* image zoom: overlayImage.src
  thumbnails,       \* image zoom: the '.thumbnail img' elements of the page
  zoomEvent,        \* image zoom: the last event of the page
  configConsole,  \* task runner: configConsole[mode].quiet of config.mjs
  mode,           \* task runner: parameter.mode of the running script
  task,           \* task runner: functionName handed to showScriptInfo
  promise,        \* task runner: the promise functionInstance returned
  console,        \* task runner: what the script wrote to the console
  queue,          \* task runner: the callbacks the event loop still holds
  disk,           \* task runner: the build directory
  diskBefore,     \* task runner: the build directory as the script found it
  clock,           \* the page: +new Date, in milliseconds
  threshold,       \* throttle: the threshold the wrapper was made with
  last,            \* throttle: last; 0 while undefined
  defer_timer,     \* throttle: defer_timer, the handle of the timer last set
  throttleTimers,  \* throttle: the timers of the wrapper still pending
  throttleCalls,   \* throttle: number of wrapper calls so far
  throttleRuns,    \* throttle: the invocations of func, in order
  delay,           \* debounce: the delay the wrapper was made with
  timer,           \* debounce: timer, the handle of the timer last set
  debounceTimers,  \* debounce: the timers of the wrapper still pending
  debounceCalls,   \* debounce: the time of each wrapper call, in order
  debounceRuns,    \* debounce: the invocations of func, in order
  isMenuOpen,    \* mobile menu: isMenuOpen
  checked,       \* mobile menu: menuToggle.checked
  ariaExpanded,  \* mobile menu: aria-expanded of the hamburger
  ariaHidden,    \* mobile menu: aria-hidden of the overlay
  menuElements,  \* mobile menu: the 'a, button, [tabindex]' in the overlay
  tabindex,      \* mobile menu: tabindex of each of these elements
  activeElement, \* mobile menu: document.activeElement
  menuEvent      \* mobile menu: the last event of the menu

inliner == <<files, content, stack, result, log, build, pc>>
slider == <<isPlaying, commands, lastEntry, textContent>>
zoomer == <<innerWidth, overlayHidden, overlayImageSrc, thumbnails, zoomEvent>>
runner ==
  <<configConsole, mode, task, promise, console, queue, disk, diskBefore>>
throttled ==
  <<threshold, last, defer_timer, throttleTimers, throttleCalls, throttleRuns>>
debounced == <<delay, timer, debounceTimers, debounceCalls, debounceRuns>>
menu ==
  <<isMenuOpen, checked, ariaExpanded, ariaHidden, menuElements, tabindex,
    activeElement, menuEvent>>
widgets == <<zoomer, runner, clock, throttled, debounced, menu>>

\* what the listeners of one part leave alone
notZoomer == <<inliner, slider, runner, clock, throttled, debounced, menu>>
notRunner == <<inliner, slider, zoomer, clock, throttled, debounced, menu>>
notThrottled == <<inliner, slider, zoomer, runner, debounced, menu>>
notDebounced == <<inliner, slider, zoomer, runner, throttled, menu>>
notMenu == <<inliner, slider, zoomer, runner, clock, throttled, debounced>>
vars == <<inliner, slider, widgets>>

----------------------------------------------------------------------------
(* Bounds *)

\* Number of pause buttons ('.swiper-slider-pause') of the page.
MaxButtons == 2

\* Most calls of HeroSwiper.autoplay followed.
MaxCommands == 4

\* Most entries one observer callback is handed.
MaxEntries == 2

\* Most '.thumbnail img' elements of a page.
MaxThumbnails == 2

\* Milliseconds the clock of the page is followed for.
MaxTime == 5

\* Most calls of a throttle or debounce wrapper followed.
MaxCalls == 3

\* Longest threshold a throttle wrapper is made with.
MaxThreshold == 2

\* Longest delay a debounce wrapper is made with.
MaxDelay == 2

\* Most elements inside the menu overlay that 'a, button, [tabindex]' selects.
MaxElements == 2

\* Depth of nested replacePlaceholder calls the engine's call stack holds.
StackLimit == 3

\* Number of pieces an input document is put together from.
MaxPieces == 2

Buttons == 1..MaxButtons

----------------------------------------------------------------------------
(* Characters and literals *)

Min(S) == CHOOSE x \in S : \A y \in S : x <= y
Max(S) == CHOOSE x \in S : \A y \in S : x >= y

\* \w of the pattern: [A-Za-z0-9_]
WordChar ==
  { "a","b","c","d","e","f","g","h","i","j","k","l","m",
    "n","o","p","q","r","s","t","u","v","w","x","y","z",
    "A","B","C","D","E","F","G","H","I","J","K","L","M",
    "N","O","P","Q","R","S","T","U","V","W","X","Y","Z",
    "0","1","2","3","4","5","6","7","8","9","_" }

\* [\w|\-] : inside a character class '|' is a literal bar
IsCategoryChar(c) == c \in WordChar \/ c = "|" \/ c = "-"

\* '.' matches every character except a line terminator
IsLineTerminator(c) == c \in {"\n", "\r"}

app == <<"a","p","p">>
deferred == <<"d","e","f","e","r","r","e","d">>
svg == <<"s","v","g">>
components == <<"c","o","m","p","o","n","e","n","t","s">>
dotHtml == <<".","h","t","m","l">>
dotSvg == <<".","s","v","g">>
appUnderscore == <<"a","p","p","/","_">>
startOpen == <<"<","!","-","-"," ","S","T","A","R","T"," ">>
endOpen == <<"<","!","-","-"," ","E","N","D"," ">>
commentClose == <<" ","-","-",">","\n">>

----------------------------------------------------------------------------
(* The pattern of replacePlaceholder:                                      *)
(*   {(app|deferred|svg):{([\w|\-]{0,})}}|{(app|deferred|svg):{(.+):{(.+)}}} *)

HasAt(s, i, lit) ==
  /\ i >= 1
  /\ i + Len(lit) - 1 <= Len(s)
  /\ SubSeq(s, i, i + Len(lit) - 1) = lit

\* (app|deferred|svg) at i: the alternative that matches, <<>> if none
KindAt(s, i) ==
  IF HasAt(s, i, app) THEN app
  ELSE IF HasAt(s, i, deferred) THEN deferred
  ELSE IF HasAt(s, i, svg) THEN svg
  ELSE <<>>

\* '{kind:{' at i: the index right after it, 0 if it is not there
PrefixEnd(s, i) ==
  LET k == KindAt(s, i + 1) IN
  IF HasAt(s, i, <<"{">>) /\ k # <<>> /\ HasAt(s, i + 1 + Len(k), <<":","{">>)
  THEN i + 3 + Len(k)
  ELSE 0

RECURSIVE RunEnd(_, _)
\* greedy [\w|\-]{0,} from j: the index of the first character not in the class
RunEnd(s, j) ==
  IF j > Len(s) \/ ~IsCategoryChar(s[j]) THEN j ELSE RunEnd(s, j + 1)

\* first alternative at i: index of the last matched character, 0 if no match
TwoPartEnd(s, i) ==
  LET j == PrefixEnd(s, i) IN
  IF j = 0 THEN 0
  ELSE LET e == RunEnd(s, j) IN
       IF HasAt(s, e, <<"}","}">>) THEN e + 1 ELSE 0

RECURSIVE LineEnd(_, _)
\* '.+' cannot pass a line terminator: index of the first one at or after j
LineEnd(s, j) ==
  IF j > Len(s) \/ IsLineTerminator(s[j]) THEN j ELSE LineEnd(s, j + 1)

\* second alternative at i. Both '.+' are greedy: the first takes the longest
\* text after which ':{' and some '<text>}}}' still follow on the line, the
\* second the longest text followed by '}}}'.
ThreePartEnd(s, i) ==
  LET j == PrefixEnd(s, i) IN
  IF j = 0 THEN 0
  ELSE LET l == LineEnd(s, j)
           closes == {r \in j..(l - 1) : HasAt(s, r, <<"}","}","}">>)}
           seps == {q \in (j + 1)..(l - 1) :
                      /\ HasAt(s, q, <<":","{">>)
                      /\ \E r \in closes : r >= q + 3}
       IN IF seps = {} THEN 0
          ELSE LET q == Max(seps)
                   r == Max({x \in closes : x >= q + 3})
               IN r + 2

\* the pattern at i: alternatives in order
MatchEnd(s, i) ==
  IF TwoPartEnd(s, i) # 0 THEN TwoPartEnd(s, i) ELSE ThreePartEnd(s, i)

RECURSIVE NextMatch(_, _)
\* leftmost match starting at or after from: its first index, 0 if none
NextMatch(s, from) ==
  IF from > Len(s) THEN 0
  ELSE IF s[from] = "{" /\ MatchEnd(s, from) # 0 THEN from
  ELSE NextMatch(s, from + 1)

RECURSIVE Matches(_, _)
\* the global scan of String.prototype.replace: every match <<first, last>>
\* of the string, left to right, each search starting behind the match before
Matches(s, from) ==
  LET i == NextMatch(s, from) IN
  IF i = 0 THEN <<>>
  ELSE <<(<<i, MatchEnd(s, i)>>)>> \o Matches(s, MatchEnd(s, i) + 1)

----------------------------------------------------------------------------
(* The replacer callback *)

\* string.replace(new RegExp('(\{|\})*', 'g'), '')
StripBraces(t) == SelectSeq(t, LAMBDA c : c \notin {"{", "}"})

RECURSIVE Split(_, _)
\* String.prototype.split on a one-character separator
Split(t, sep) ==
  LET at == {i \in 1..Len(t) : t[i] = sep} IN
  IF at = {} THEN <<t>>
  ELSE <<SubSeq(t, 1, Min(at) - 1)>> \o Split(SubSeq(t, Min(at) + 1, Len(t)), sep)

match(string) == Split(StripBraces(string), ":")

type(string) == match(string)[1]

isSvg(string) == type(string) = svg

\* '.html' for every kind
extension_AlwaysHtml(string) == dotHtml

extension(string) == IF isSvg(string) THEN dotSvg ELSE dotHtml

folder(string) == match(string)[2]

\* the name part not looked at
file_IgnoresName(string) == folder(string)

file(string) ==
  IF Len(match(string)) > 2 THEN match(string)[3] ELSE folder(string)

\* the folder prefix put before every kind, 'app' included
mappedType_EveryKind(string) == appUnderscore \o type(string)

\* type = type !== 'app' ? 'app/_' + type : type
mappedType(string) ==
  IF type(string) # app THEN appUnderscore \o type(string) ELSE type(string)

RECURSIVE JoinArgs(_)
\* path.join, first half: the non-empty arguments joined by '/'
JoinArgs(args) ==
  IF args = <<>> THEN <<>>
  ELSE LET rest == JoinArgs(Tail(args)) IN
       IF Head(args) = <<>> THEN rest
       ELSE IF rest = <<>> THEN Head(args)
       ELSE Head(args) \o <<"/">> \o rest

RECURSIVE NormalizeSegments(_, _)
\* path.normalize of a relative path: '' and '.' segments are dropped, '..'
\* removes the segment before it (or stays when there is none to remove)
NormalizeSegments(segs, res) ==
  IF segs = <<>> THEN res
  ELSE LET s == Head(segs) IN
       IF s = <<>> \/ s = <<".">> THEN NormalizeSegments(Tail(segs), res)
       ELSE IF s = <<".",".">>
         THEN IF res # <<>> /\ res[Len(res)] # <<".",".">>
              THEN NormalizeSegments(Tail(segs), SubSeq(res, 1, Len(res) - 1))
              ELSE NormalizeSegments(Tail(segs), Append(res, s))
         ELSE NormalizeSegments(Tail(segs), Append(res, s))

PathJoin(args) ==
  LET segs == NormalizeSegments(Split(JoinArgs(args), "/"), <<>>) IN
  IF segs = <<>> THEN <<".">> ELSE JoinArgs(segs)

\* filepath = path.join('components', type, folder, file + extension)
filepath(string) ==
  PathJoin(<<components, mappedType(string), folder(string),
             file(string) \o extension(string)>>)

\* the START comment for every kind
start_EveryKind(string) == startOpen \o filepath(string) \o commentClose

start(string) ==
  IF isSvg(string) THEN startOpen \o filepath(string) \o commentClose ELSE <<>>

\* the END comment written as a copy of the START comment
end_CopyOfStart(string) == start(string)

end(string) ==
  IF isSvg(string) THEN endOpen \o filepath(string) \o commentClose ELSE <<>>

----------------------------------------------------------------------------
(* The fragment tree *)

Absent == [st |-> "absent", text |-> <<>>]
Unreadable == [st |-> "unreadable", text |-> <<>>]
File(t) == [st |-> "file", text |-> t]

\* the existence test left out
existsSync_Always(p) == TRUE

\* fs.existsSync(filepath)
existsSync(p) == p \in DOMAIN files /\ files[p].st # "absent"

\* fs.readFileSync(filepath, { encoding: 'utf8' }) returns (it throws otherwise)
Readable(p) == p \in DOMAIN files /\ files[p].st = "file"

fileContent(string) ==
  start(string) \o files[filepath(string)].text \o end(string)

----------------------------------------------------------------------------
(* replacePlaceholder as a function of the content and the call depth *)

RECURSIVE replacePlaceholder(_, _)
RECURSIVE ReplaceAll(_, _, _, _)

\* a token without a fragment file is removed
Replacement_RemovesMissing(string, depth) ==
  IF existsSync(filepath(string))
       /\ Readable(filepath(string))
       /\ depth < StackLimit
  THEN replacePlaceholder(fileContent(string), depth + 1)
  ELSE IF existsSync(filepath(string)) THEN string ELSE <<>>

\* what the replacer callback returns for the matched text
Replacement(string, depth) ==
  IF existsSync(filepath(string))
       /\ Readable(filepath(string))
       /\ depth < StackLimit
  THEN replacePlaceholder(fileContent(string), depth + 1)
  ELSE string

\* content.replace(pattern, callback): the text between the matches is kept,
\* each match gives way to what the callback returns for it
ReplaceAll(c, todo, pos, depth) ==
  IF todo = <<>> THEN SubSeq(c, pos, Len(c))
  ELSE LET i == Head(todo)[1]
           e == Head(todo)[2]
       IN SubSeq(c, pos, i - 1)
            \o Replacement(SubSeq(c, i, e), depth)
            \o ReplaceAll(c, Tail(todo), e + 1, depth)

replacePlaceholder(c, depth) == ReplaceAll(c, Matches(c, 1), 1, depth)

----------------------------------------------------------------------------
(* Documents and fragment trees the build is run on *)

Tok2(k, c) == <<"{">> \o k \o <<":","{">> \o c \o <<"}","}">>
Tok3(k, c, n) ==
  <<"{">> \o k \o <<":","{">> \o c \o <<":","{">> \o n \o <<"}","}","}">>
\* the three-part form as the specification writes it
SpecTok3(k, c, n) ==
  <<"{">> \o k \o <<":","{">> \o c \o <<"}",":","{">> \o n \o <<"}","}">>

Kinds == {app, deferred, svg}
KindFolder(k) == IF k = app THEN app ELSE appUnderscore \o k
KindExt(k) == IF k = svg THEN dotSvg ELSE dotHtml

\* components/<mapped-kind>/<category>/<name><ext>, written out
FragmentPath(k, c, n) ==
  components \o <<"/">> \o KindFolder(k) \o <<"/">> \o c \o <<"/">> \o n
    \o KindExt(k)

P_aa == FragmentPath(app, <<"a">>, <<"a">>)
P_bb == FragmentPath(app, <<"b">>, <<"b">>)
P_svg == FragmentPath(svg, <<"a">>, <<"a">>)
P_dab == FragmentPath(deferred, <<"a">>, <<"b">>)

\* a file beside the components folder, in the working directory
P_out == <<"a",".","h","t","m","l">>

\* the fragment of a two-part token whose category is a bar
P_bar == FragmentPath(app, <<"|">>, <<"|">>)

FragPaths == {P_aa, P_bb, P_svg, P_dab, P_out, P_bar}

FragOptions(p) ==
  IF p = P_aa THEN {Absent, File(<<"x">> \o Tok2(app, <<"b">>)), Unreadable}
  ELSE IF p = P_bb
    THEN {Absent, File(<<"a","}","}">>), File(Tok2(svg, <<"a">>))}
  ELSE IF p = P_svg
    THEN {Absent, File(<<"{","a","p","p",":","{">> \o Tok2(app, <<"b">>))}
  ELSE IF p = P_out THEN {File(<<"S">>)}
  ELSE IF p = P_bar THEN {File(<<"B">>)}
  ELSE {Absent, File(<<"D">>)}

AllFragStates == UNION {FragOptions(p) : p \in FragPaths}

Trees == {t \in [FragPaths -> AllFragStates] : \A p \in FragPaths : t[p] \in FragOptions(p)}

\* a three-part token whose category climbs out of the components folder
TraversalTok == Tok3(app, <<".",".","/",".",".">>, <<"a">>)

\* a two-part token whose category is a bar
BarTok == Tok2(app, <<"|">>)

Pieces ==
  { Tok2(app, <<"a">>), Tok2(app, <<"b">>), Tok2(svg, <<"a">>),
    Tok3(deferred, <<"a">>, <<"b">>), SpecTok3(deferred, <<"a">>, <<"b">>),
    <<"x">>, <<"\n">>, <<"{","a","p","p",":","{">> }

RECURSIVE Documents(_)
Documents(n) ==
  IF n = 0 THEN {<<>>}
  ELSE LET shorter == Documents(n - 1) IN
       shorter \cup {d \o p : d \in shorter, p \in Pieces}

\* documents that are one token and nothing else
Alone == {TraversalTok, BarTok}

----------------------------------------------------------------------------
(* The calls, step by step *)

Top == stack[Len(stack)]

\* one matcher for all calls: the scan of a nested call starts where the
\* scan of the calling one stands
Frame_SharedLastIndex(c) ==
  [src |-> c,
   todo |-> Matches(c, IF stack = <<>> THEN 1 ELSE Head(stack[Len(stack)].todo)[2] + 1),
   pos |-> 1, out |-> <<>>]

\* a call as it starts: the matches of its content are all found first
Frame(c) == [src |-> c, todo |-> Matches(c, 1), pos |-> 1, out |-> <<>>]

\* the match the callback of the running call is invoked for, and the text
\* between the match before and it
MatchStart == Head(Top.todo)[1]
MatchStop == Head(Top.todo)[2]
string == SubSeq(Top.src, MatchStart, MatchStop)
Gap == SubSeq(Top.src, Top.pos, MatchStart - 1)

AtMatch == pc = "running" /\ Top.todo # <<>>
AtEnd == pc = "running" /\ Top.todo = <<>>

\* the text between the match before and this one is lost
Substitute_DropsGap(text) ==
  [stack EXCEPT ![Len(stack)] =
     [@ EXCEPT !.todo = Tail(@), !.pos = MatchStop + 1,
               !.out = @ \o text]]

\* the callback returned text for the match: on to the next match
Substitute(text) ==
  [stack EXCEPT ![Len(stack)] =
     [@ EXCEPT !.todo = Tail(@), !.pos = MatchStop + 1,
               !.out = @ \o Gap \o text]]

\* the text behind the last match left out
Returned_WithoutTail == Top.out

\* the string the running call returns
Returned == Top.out \o SubSeq(Top.src, Top.pos, Len(Top.src))

\* openOverlay: the widest window (px) the overlay stays closed in
Breakpoint == 500

\* an element attribute: absent (getAttribute returns null) or a string
NoAttribute == [has |-> FALSE, value |-> ""]

Attribute(v) == [has |-> TRUE, value |-> v]

\* no event yet
NoEvent == [type |-> "none", target |-> "none", index |-> 0, key |-> ""]

\* imagezoom has run on a page that has the overlay, the overlay image and
\* the close button: the listeners are bound, the overlay is closed
ZoomConstructed(w, th) ==
  /\ innerWidth = w
  /\ overlayHidden = TRUE
  /\ overlayImageSrc = ""
  /\ thumbnails = th
  /\ zoomEvent = NoEvent

\* the modes a script is run in (--mode)
Modes == {"dev", "prod"}

\* the paths followed below the build directory
Paths == {"index.html", ".htaccess", "css", "css/main.css"}

IsDirectory(p) == p = "css"

\* no entry without the directory it lies in
WellFormed(entries) == "css/main.css" \in entries => "css" \in entries

NoDirectory == [st |-> "absent", entries |-> {}]

\* the build path is taken by a regular file
RegularFile == [st |-> "file", entries |-> {}]

Directory(entries) == [st |-> "dir", entries |-> entries]

\* what the build path may hold when a script starts
Disks ==
  {NoDirectory, RegularFile}
    \cup {Directory(e) : e \in {x \in SUBSET Paths : WellFormed(x)}}

\* no script has been started: build directory d, console configuration c
RunnerConstructed(d, c) ==
  /\ configConsole = c
  /\ mode = "dev"
  /\ task = "none"
  /\ promise = "none"
  /\ console = <<>>
  /\ queue = {}
  /\ disk = d
  /\ diskBefore = d

\* throttle(func, th) has returned its wrapper
ThrottleConstructed(th) ==
  /\ threshold = th
  /\ last = 0
  /\ defer_timer = 0
  /\ throttleTimers = {}
  /\ throttleCalls = 0
  /\ throttleRuns = <<>>

\* debounce(func, d) has returned its wrapper
DebounceConstructed(d) ==
  /\ delay = d
  /\ timer = 0
  /\ debounceTimers = {}
  /\ debounceCalls = <<>>
  /\ debounceRuns = <<>>

\* bindEvents has made the two wrappers, and no time has passed since
TimersConstructed ==
  /\ clock = 1
  /\ ThrottleConstructed(1)
  /\ DebounceConstructed(1)

\* an attribute set from a boolean: setAttribute(name, b)
BoolString(b) == IF b THEN "true" ELSE "false"

\* an element of the page; index numbers the elements inside the overlay
Element(name, index) == [el |-> name, index |-> index]

\* MenuOverlayPhone has run on a page whose overlay holds the elements els:
\* the listeners are bound and updateMenuState has run for the closed menu
MenuConstructed(els) ==
  /\ isMenuOpen = FALSE
  /\ checked = FALSE
  /\ ariaExpanded = BoolString(FALSE)
  /\ ariaHidden = BoolString(TRUE)
  /\ menuElements = els
  /\ tabindex = [e \in DOMAIN els |-> "-1"]
  /\ activeElement = Element("body", 0)
  /\ menuEvent = NoEvent

\* the page scripts have run on a page without thumbnails; no task script
\* has been started
WidgetsConstructed ==
  /\ TimersConstructed
  /\ MenuConstructed(<<>>)
  /\ ZoomConstructed(Breakpoint + 1, <<>>)
  /\ RunnerConstructed(NoDirectory,
                       [m \in Modes |-> [quiet |-> FALSE, verbose |-> FALSE]])

\* no build is running
InlinerIdle ==
  /\ files = [p \in FragPaths |-> Absent]
  /\ content = <<>>
  /\ stack = <<>>
  /\ result = <<>>
  /\ log = <<>>
  /\ build = Absent
  /\ pc = "idle"

\* SliderHero has run: the Swiper is constructed with the autoplay option,
\* isPlaying = true, no pause button clicked, no observer entry delivered
SliderConstructed ==
  /\ isPlaying = TRUE
  /\ commands = <<>>
  /\ lastEntry = "none"
  /\ textContent = [b \in Buttons |-> "initial"]

Init ==
  /\ files \in Trees
  /\ content = <<>>
  /\ stack = <<>>
  /\ result = <<>>
  /\ log = <<>>
  /\ build = Absent
  /\ pc = "idle"
  /\ SliderConstructed
  /\ WidgetsConstructed

\* replaceHtml: htmlCode = replacePlaceholder(htmlCode)
Call ==
  /\ pc = "idle"
  /\ \E c \in Documents(MaxPieces) \cup Alone :
       /\ content' = c
       /\ stack' = <<Frame(c)>>
  /\ pc' = "running"
  /\ UNCHANGED <<widgets, slider, build, files, result, log>>

\* the fragment path does not exist: return string
Missing ==
  /\ AtMatch
  /\ ~existsSync(filepath(string))
  /\ stack' = Substitute(string)
  /\ UNCHANGED <<widgets, slider, build, files, content, result, log, pc>>

\* nothing returned after the catch: the match gives way to 'undefined'
ReadFailure_ReturnsUndefined ==
  /\ AtMatch
  /\ existsSync(filepath(string))
  /\ ~Readable(filepath(string))
  /\ stack' = Substitute(<<"u","n","d","e","f","i","n","e","d">>)
  /\ log' = Append(log, [error |-> "read", path |-> filepath(string)])
  /\ UNCHANGED <<widgets, slider, build, files, content, result, pc>>

\* readFileSync throws: catch, showError(error), return string
ReadFailure ==
  /\ AtMatch
  /\ existsSync(filepath(string))
  /\ ~Readable(filepath(string))
  /\ stack' = Substitute(string)
  /\ log' = Append(log, [error |-> "read", path |-> filepath(string)])
  /\ UNCHANGED <<widgets, slider, build, files, content, result, pc>>

\* the file content returned as read, without the nested call
Include_NotRecursive ==
  /\ AtMatch
  /\ existsSync(filepath(string))
  /\ Readable(filepath(string))
  /\ stack' = Substitute(fileContent(string))
  /\ UNCHANGED <<widgets, slider, build, files, content, result, log, pc>>

\* a call stack without an end: the nested call always starts
Include_Unbounded ==
  /\ AtMatch
  /\ existsSync(filepath(string))
  /\ Readable(filepath(string))
  /\ stack' = Append(Substitute(<<>>), Frame(fileContent(string)))
  /\ UNCHANGED <<widgets, slider, build, files, content, result, log, pc>>

\* return replacePlaceholder(fileContent): the nested call starts
Include ==
  /\ AtMatch
  /\ existsSync(filepath(string))
  /\ Readable(filepath(string))
  /\ Len(stack) < StackLimit
  /\ stack' = Append(Substitute(<<>>), Frame(fileContent(string)))
  /\ UNCHANGED <<widgets, slider, build, files, content, result, log, pc>>

\* the nested call cannot start, the call stack is exhausted: the engine's
\* RangeError is thrown inside the try block; catch, showError(error),
\* return string
StackExhausted ==
  /\ AtMatch
  /\ existsSync(filepath(string))
  /\ Readable(filepath(string))
  /\ Len(stack) >= StackLimit
  /\ stack' = Substitute(string)
  /\ log' = Append(log, [error |-> "stack", path |-> filepath(string)])
  /\ UNCHANGED <<widgets, slider, build, files, content, result, pc>>

\* the calling scan starts again on the string with the returned text in it
ReturnNested_Rescans ==
  /\ AtEnd
  /\ Len(stack) > 1
  /\ stack' = [SubSeq(stack, 1, Len(stack) - 1) EXCEPT
                 ![Len(stack) - 1] =
                    Frame(@.out \o Returned \o SubSeq(@.src, @.pos, Len(@.src)))]
  /\ UNCHANGED <<widgets, slider, build, files, content, result, log, pc>>

\* a nested call returns: its string replaces the match in the calling scan
ReturnNested ==
  /\ AtEnd
  /\ Len(stack) > 1
  /\ stack' = [SubSeq(stack, 1, Len(stack) - 1) EXCEPT
                 ![Len(stack) - 1] = [@ EXCEPT !.out = @ \o Returned]]
  /\ UNCHANGED <<widgets, slider, build, files, content, result, log, pc>>

\* the function writes the destination file itself
ReturnTop_WritesFile ==
  /\ AtEnd
  /\ Len(stack) = 1
  /\ result' = Returned
  /\ build' = File(Returned)
  /\ stack' = <<>>
  /\ pc' = "done"
  /\ UNCHANGED <<widgets, slider, files, content, log>>

\* the outermost call returns to replaceHtml
ReturnTop ==
  /\ AtEnd
  /\ Len(stack) = 1
  /\ result' = Returned
  /\ stack' = <<>>
  /\ pc' = "done"
  /\ UNCHANGED <<widgets, slider, build, files, content, log>>

\* replaceHtml: fs.writeFileSync(fileDestination, htmlCode.toString())
Persist ==
  /\ pc = "done"
  /\ build' = File(result)
  /\ pc' = "written"
  /\ UNCHANGED <<widgets, slider, files, content, stack, result, log>>

\* forEach takes the next html file of the working directory
NextFile ==
  /\ pc = "written"
  /\ pc' = "idle"
  /\ content' = <<>>
  /\ result' = <<>>
  /\ log' = <<>>
  /\ build' = Absent
  /\ UNCHANGED <<widgets, slider, files, stack>>

Next ==
  \/ Call
  \/ Missing
  \/ ReadFailure
  \/ Include
  \/ StackExhausted
  \/ ReturnNested
  \/ ReturnTop
  \/ Persist
  \/ NextFile

Spec == Init /\ [][Next]_vars

----------------------------------------------------------------------------
(* SliderHero: the pause buttons and the intersection observer *)

LastOf(s) == s[Len(s)]

\* the click listener of a pause button
Click(button) ==
  /\ Len(commands) < MaxCommands
  /\ IF isPlaying
     THEN /\ commands' = Append(commands, "stop")
          /\ textContent' = [textContent EXCEPT ![button] = "play"]
     ELSE /\ commands' = Append(commands, "start")
          /\ textContent' = [textContent EXCEPT ![button] = "pause"]
  /\ isPlaying' = ~isPlaying
  /\ UNCHANGED <<widgets, inliner, lastEntry>>

\* autoplay started for every entry that intersects
HandleEntry_StartsAlways(cmds, isIntersecting) ==
  IF isIntersecting THEN Append(cmds, "start") ELSE Append(cmds, "stop")

\* the observer callback for one entry: the autoplay calls after it
HandleEntry(cmds, isIntersecting) ==
  IF isIntersecting
  THEN IF isPlaying THEN Append(cmds, "start") ELSE cmds
  ELSE Append(cmds, "stop")

RECURSIVE HandleEntries(_, _)
\* entries.forEach(entry => ...)
HandleEntries(cmds, entries) ==
  IF entries = <<>> THEN cmds
  ELSE HandleEntries(HandleEntry(cmds, Head(entries)), Tail(entries))

\* the entries one callback is handed
Batches == UNION {[1..n -> BOOLEAN] : n \in 1..MaxEntries}

\* the IntersectionObserver callback
Observe ==
  \E entries \in Batches :
    /\ Len(HandleEntries(commands, entries)) <= MaxCommands
    /\ commands' = HandleEntries(commands, entries)
    /\ lastEntry' = IF LastOf(entries) THEN "visible" ELSE "hidden"
    /\ UNCHANGED <<widgets, inliner, isPlaying, textContent>>

SliderInit ==
  /\ files = [p \in FragPaths |-> Absent]
  /\ content = <<>>
  /\ stack = <<>>
  /\ result = <<>>
  /\ log = <<>>
  /\ build = Absent
  /\ pc = "idle"
  /\ SliderConstructed
  /\ WidgetsConstructed

SliderNext ==
  \/ \E button \in Buttons : Click(button)
  \/ Observe

SliderSpec == SliderInit /\ [][SliderNext]_vars

----------------------------------------------------------------------------
(* Image zoom: the thumbnails, the overlay and its listeners *)

\* the address the page's relative addresses are resolved against
BaseURL == "https://host/"

\* the src property of an image: its src attribute, resolved; '' without one
ImgSrc(img) ==
  IF img.src.has /\ img.src.value # "" THEN BaseURL \o img.src.value ELSE ""

\* a || b of two strings, a possibly null
OrElse(a, b) == IF a.has /\ a.value # "" THEN a.value ELSE b

\* img.getAttribute('data-large') || img.src taken for the attribute whenever
\* it is present
largeSrc_AttributeWhenPresent(img) ==
  IF img.large.has THEN img.large.value ELSE ImgSrc(img)

\* img.getAttribute('data-large') || img.src
largeSrc(img) == OrElse(img.large, ImgSrc(img))

\* the window widths followed: around the breakpoint
Widths == {Breakpoint - 1, Breakpoint, Breakpoint + 1}

\* the '.thumbnail img' elements a page may hold
Images ==
  [large : {NoAttribute, Attribute(""), Attribute("large.jpg")},
   src : {NoAttribute, Attribute("thumb.jpg")}]

Pages == UNION {[1..n -> Images] : n \in 0..MaxThumbnails}

\* an event of the page, as its listeners see it
Event(name, target, index, key) ==
  [type |-> name, target |-> target, index |-> index, key |-> key]

\* the overlay opened in every window wider than the breakpoint or as wide
openOverlay_OpensAtBreakpoint(t) ==
  /\ t \in DOMAIN thumbnails
  /\ zoomEvent' = Event("click", "thumbnail", t, "")
  /\ IF innerWidth < Breakpoint
     THEN UNCHANGED <<overlayHidden, overlayImageSrc>>
     ELSE /\ overlayImageSrc' = largeSrc(thumbnails[t])
          /\ overlayHidden' = FALSE
  /\ UNCHANGED <<notZoomer, innerWidth, thumbnails>>

\* openOverlay: the click listener of thumbnail t
openOverlay(t) ==
  /\ t \in DOMAIN thumbnails
  /\ zoomEvent' = Event("click", "thumbnail", t, "")
  /\ IF innerWidth <= Breakpoint
     THEN UNCHANGED <<overlayHidden, overlayImageSrc>>
     ELSE /\ overlayImageSrc' = largeSrc(thumbnails[t])
          /\ overlayHidden' = FALSE
  /\ UNCHANGED <<notZoomer, innerWidth, thumbnails>>

\* closeOverlay
closeOverlay ==
  /\ overlayHidden' = TRUE
  /\ overlayImageSrc' = ""

\* the click listener of the close button
CloseClick ==
  /\ zoomEvent' = Event("click", "close-btn", 0, "")
  /\ closeOverlay
  /\ UNCHANGED <<notZoomer, innerWidth, thumbnails>>

\* the keys followed
Keys == {"Enter", " ", "Escape", "Tab"}

\* the keydown listener of the document
DocumentKeydown(key) ==
  /\ zoomEvent' = Event("keydown", "document", 0, key)
  /\ IF key = "Escape" /\ ~overlayHidden
     THEN closeOverlay
     ELSE UNCHANGED <<overlayHidden, overlayImageSrc>>
  /\ UNCHANGED <<notZoomer, innerWidth, thumbnails>>

\* the click listener of the overlay: target is the overlay or the image in it
OverlayClick(target) ==
  /\ zoomEvent' = Event("click", target, 0, "")
  /\ IF target = "image-overlay"
     THEN closeOverlay
     ELSE UNCHANGED <<overlayHidden, overlayImageSrc>>
  /\ UNCHANGED <<notZoomer, innerWidth, thumbnails>>

\* the user resizes the window; no listener of the image zoom runs
Resize(w) ==
  /\ innerWidth' = w
  /\ zoomEvent' = Event("resize", "window", 0, "")
  /\ UNCHANGED <<notZoomer, overlayHidden, overlayImageSrc, thumbnails>>

ZoomInit ==
  /\ InlinerIdle
  /\ SliderConstructed
  /\ \E w \in Widths, th \in Pages : ZoomConstructed(w, th)
  /\ TimersConstructed
  /\ MenuConstructed(<<>>)
  /\ RunnerConstructed(NoDirectory,
                       [m \in Modes |-> [quiet |-> FALSE, verbose |-> FALSE]])

ZoomNext ==
  \/ \E t \in 1..MaxThumbnails : openOverlay(t)
  \/ CloseClick
  \/ \E key \in Keys : DocumentKeydown(key)
  \/ \E target \in {"image-overlay", "overlay-image"} : OverlayClick(target)
  \/ \E w \in Widths : Resize(w)

ZoomSpec == ZoomInit /\ [][ZoomNext]_vars

----------------------------------------------------------------------------
(* The task scripts: showScriptInfo and the tasks clean, statics-copy and *)
(* validate-html, one script (one Node.js process) at a time             *)

\* the files (no directories) among the entries: fastGlob.sync(['**/*'])
\* with dot: true
Files(entries) == {p \in entries : ~IsDirectory(p)}

\* fs.readdirSync: the names directly in the directory
Names(entries) == {p \in entries : p # "css/main.css"}

\* file.match(/\.html$/), on the paths followed
IsHtml(p) == p = "index.html"

\* resolve and reject settle a pending promise and nothing else
Settle(p, outcome) == IF p = "pending" THEN outcome ELSE p

\* a callback the event loop holds, with the addresses it waits for
Job(name, urls) == [job |-> name, urls |-> urls]

\* the reaction showScriptInfo registers with then, queued once the promise
\* of the task is settled
Reaction(before, after) ==
  IF before # after /\ after # "pending" THEN {Job("report", {})} ELSE {}

\* n console lines of one sort
Lines(n, line) == [i \in 1..n |-> line]

\* showFileInfo: a line per file, in verbose mode only
FileInfo(c, n) == IF ~c.quiet /\ c.verbose THEN Lines(n, "file") ELSE <<>>

\* the first console line of showScriptInfo
StartLine(c) == IF c.quiet THEN "tag" ELSE "running"

\* the executor of clean without the removal of an existing directory
clean_KeepsContent(d, fault, removed) ==
  IF fault = "mkdir" \/ d.st = "file"
  THEN [disk |-> d, outcome |-> "rejected"]
  ELSE [disk |-> IF d.st = "dir" THEN d ELSE Directory({}),
        outcome |-> "resolved"]

\* the executor of clean on build directory d; fault names the fs call that
\* throws, removed the files unlinked before a failing unlinkSync
clean(d, fault, removed) ==
  IF d.st = "file"
  THEN IF fault = "none"
       THEN [disk |-> Directory({}), outcome |-> "resolved"]
       ELSE [disk |-> d, outcome |-> "rejected"]
  ELSE IF d.st = "dir" /\ fault = "unlink" /\ Files(d.entries) # {}
  THEN [disk |-> Directory(d.entries \ removed), outcome |-> "rejected"]
  ELSE IF d.st = "dir" /\ fault = "rmdir"
  THEN [disk |-> Directory(d.entries \ Files(d.entries)),
        outcome |-> "rejected"]
  ELSE IF fault = "mkdir"
  THEN [disk |-> NoDirectory, outcome |-> "rejected"]
  ELSE [disk |-> Directory({}), outcome |-> "resolved"]

\* a script is started when the one before it has left the event loop empty
Begin(m, name, outcome, lines, jobs, d) ==
  /\ queue = {}
  /\ mode' = m
  /\ task' = name
  /\ console' = <<StartLine(configConsole[m])>> \o lines
  /\ promise' = outcome
  /\ queue' = jobs \cup Reaction("pending", outcome)
  /\ disk' = d
  /\ diskBefore' = disk
  /\ UNCHANGED <<notRunner, configConsole>>

\* node clean.mjs --mode=m
StartClean(m, fault, removed) ==
  /\ removed \subseteq Files(disk.entries)
  /\ removed # Files(disk.entries)
  /\ LET r == clean(disk, fault, removed)
     IN Begin(m, "clean", r.outcome, <<>>, {}, r.disk)

\* config.build.statics.copy as config.mjs may hold it: no statics section,
\* no entry, or an entry with its modes and the files its patterns match
CopyConfigs ==
  {[kind |-> "missing", modes |-> {}, files |-> {}],
   [kind |-> "empty", modes |-> {}, files |-> {}]}
    \cup [kind : {"entries"}, modes : {Modes, {"prod"}},
          files : SUBSET {"index.html", ".htaccess"}]

\* the executor of copyStatics; fails: a copyFileSync throws, after the files
\* in copied were copied
copyStatics(cfg, d, m, fails, copied) ==
  IF cfg.kind = "missing"
  THEN [disk |-> d, outcome |-> "rejected", copies |-> 0, warnings |-> 0]
  ELSE IF cfg.kind = "empty"
  THEN [disk |-> d, outcome |-> "pending", copies |-> 0, warnings |-> 1]
  ELSE IF m \notin cfg.modes \/ cfg.files = {}
  THEN [disk |-> d, outcome |-> "resolved", copies |-> 0, warnings |-> 0]
  ELSE IF d.st = "file"
  THEN [disk |-> d, outcome |-> "rejected", copies |-> 0, warnings |-> 0]
  ELSE IF fails
  THEN [disk |-> Directory(d.entries \cup copied), outcome |-> "rejected",
        copies |-> Cardinality(copied), warnings |-> 0]
  ELSE [disk |-> Directory(d.entries \cup cfg.files), outcome |-> "resolved",
        copies |-> Cardinality(cfg.files), warnings |-> 0]

\* node statics-copy.mjs --mode=m
StartCopyStatics(m, cfg, fails, copied) ==
  /\ copied \subseteq cfg.files
  /\ copied # cfg.files
  /\ LET r == copyStatics(cfg, disk, m, fails, copied)
     IN Begin(m, "statics-copy", r.outcome,
              FileInfo(configConsole[m], r.copies)
                \o Lines(r.warnings, "warning"),
              {}, r.disk)

\* node html-validate.mjs --mode=m: nothing is run in prod mode
StartValidateHtml(m) ==
  IF m = "prod"
  THEN /\ queue = {}
       /\ mode' = m
       /\ task' = "none"
       /\ console' = <<>>
       /\ promise' = "none"
       /\ diskBefore' = disk
       /\ UNCHANGED <<notRunner, configConsole, queue, disk>>
  ELSE Begin(m, "validate-html", "pending", <<>>, {Job("import", {})}, disk)

\* validateHtml: import('../config-client.mjs') is settled. found: the module
\* exists; url: it has a localDevelopmentUrl; path: --filepath
ImportSettles(found, url, path) ==
  /\ Job("import", {}) \in queue
  /\ IF found /\ url /\ (path # "" \/ disk.st = "dir")
     THEN LET listed == IF path # "" THEN {path}
                        ELSE Names(disk.entries)
          IN /\ queue' = (queue \ {Job("import", {})})
                           \cup {Job("fetch", {f \in listed : IsHtml(f)})}
             /\ UNCHANGED console
     ELSE /\ queue' = queue \ {Job("import", {})}
          /\ console' = Append(console, "warning")
  /\ UNCHANGED <<notRunner, configConsole, mode, task, promise,
                 disk, diskBefore>>

\* validateHtml: Promise.all(requests) is settled. failed: a fetch was
\* rejected; ok: the addresses answered with a status from 200 to 399
FetchSettles(urls, failed, ok) ==
  /\ Job("fetch", urls) \in queue
  /\ ok \subseteq urls
  /\ failed => urls # {}
  /\ IF failed
     THEN /\ queue' = queue \ {Job("fetch", urls)}
          /\ console' = Append(console, "error")
          /\ UNCHANGED promise
     ELSE LET settled == IF urls # {} /\ ok = {}
                         THEN Settle(promise, "rejected") ELSE promise
          IN /\ promise' = settled
             /\ console' = console \o Lines(Cardinality(urls \ ok), "error")
             /\ queue' = ((queue \ {Job("fetch", urls)})
                            \cup {Job("validate", ok)})
                           \cup Reaction(promise, settled)
  /\ UNCHANGED <<notRunner, configConsole, mode, task, disk,
                 diskBefore>>

\* validateHtml: Promise.all(htmlValidatorResults) is settled. failed: a
\* validator promise was rejected or its result could not be displayed
ValidateSettles(urls, failed) ==
  /\ Job("validate", urls) \in queue
  /\ failed => urls # {}
  /\ IF failed
     THEN /\ queue' = queue \ {Job("validate", urls)}
          /\ console' = Append(console, "error")
          /\ UNCHANGED promise
     ELSE /\ promise' = Settle(promise, "resolved")
          /\ console' = console
                          \o FileInfo(configConsole[mode], Cardinality(urls))
                          \o Lines(Cardinality(urls), "result")
          /\ queue' = (queue \ {Job("validate", urls)})
                        \cup Reaction(promise, Settle(promise, "resolved"))
  /\ UNCHANGED <<notRunner, configConsole, mode, task, disk,
                 diskBefore>>

\* showScriptInfo: the reaction to the settled promise
Report ==
  /\ Job("report", {}) \in queue
  /\ queue' = queue \ {Job("report", {})}
  /\ console' = IF configConsole[mode].quiet THEN console
                ELSE IF promise = "resolved" THEN Append(console, "finished")
                ELSE Append(console, "aborting")
  /\ UNCHANGED <<notRunner, configConsole, mode, task, promise,
                 disk, diskBefore>>

TaskInit ==
  /\ InlinerIdle
  /\ SliderConstructed
  /\ ZoomConstructed(Breakpoint + 1, <<>>)
  /\ TimersConstructed
  /\ MenuConstructed(<<>>)
  /\ \E d \in Disks, c \in [Modes -> [quiet : BOOLEAN, verbose : BOOLEAN]] :
       RunnerConstructed(d, c)

\* the callbacks the event loop runs
TaskCallbacks ==
  \/ \E found, url \in BOOLEAN, path \in {"", "index.html", ".htaccess"} :
       ImportSettles(found, url, path)
  \/ \E urls, ok \in SUBSET Paths, failed \in BOOLEAN :
       FetchSettles(urls, failed, ok)
  \/ \E urls \in SUBSET Paths, failed \in BOOLEAN :
       ValidateSettles(urls, failed)
  \/ Report

TaskNext ==
  \/ \E m \in Modes, fault \in {"none", "unlink", "rmdir", "mkdir"},
        removed \in SUBSET Paths : StartClean(m, fault, removed)
  \/ \E m \in Modes, cfg \in CopyConfigs, fails \in BOOLEAN,
        copied \in SUBSET Paths : StartCopyStatics(m, cfg, fails, copied)
  \/ \E m \in Modes : StartValidateHtml(m)
  \/ TaskCallbacks

\* the event loop runs every callback it holds
TaskSpec == TaskInit /\ [][TaskNext]_vars /\ WF_vars(TaskCallbacks)

----------------------------------------------------------------------------
(* throttle and debounce: the wrappers bindEvents makes, their timers and *)
(* the clock of the page                                                  *)

\* a millisecond passes; a timer that is due may still be waiting
Tick ==
  /\ clock < MaxTime
  /\ clock' = clock + 1
  /\ UNCHANGED <<inliner, slider, zoomer, runner, throttled, debounced, menu>>

\* setTimeout(callback, after): the timer, named by the call that set it
Timer(id, after) == [id |-> id, due |-> clock + after, now |-> clock]

\* clearTimeout(handle): a handle of no pending timer clears nothing
Cleared(timers, handle) == {t \in timers : t.id # handle}

\* an invocation of func: when, with the arguments of which call, and how
\* many calls the wrapper had had by then
Run(args, calls) == [at |-> clock, args |-> args, calls |-> calls]

\* the wrapper throttle returns, called with new arguments; the arguments
\* are named by the number of the call
Throttled ==
  /\ throttleCalls < MaxCalls
  /\ throttleCalls' = throttleCalls + 1
  /\ IF last # 0 /\ clock < last + threshold
     THEN /\ throttleTimers' =
               Cleared(throttleTimers, defer_timer)
                 \cup {Timer(throttleCalls + 1, threshold)}
          /\ defer_timer' = throttleCalls + 1
          /\ UNCHANGED <<last, throttleRuns>>
     ELSE /\ last' = clock
          /\ throttleRuns' =
               Append(throttleRuns, Run(throttleCalls + 1, throttleCalls + 1))
          /\ UNCHANGED <<defer_timer, throttleTimers>>
  /\ UNCHANGED <<notThrottled, clock, threshold>>

\* the callback of a deferred timer of throttle
DeferTimerFires(t) ==
  /\ t \in throttleTimers
  /\ t.due <= clock
  /\ throttleTimers' = throttleTimers \ {t}
  /\ last' = t.now
  /\ throttleRuns' = Append(throttleRuns, Run(t.id, throttleCalls))
  /\ UNCHANGED <<notThrottled, clock, threshold, defer_timer, throttleCalls>>

\* the timers a wrapper may have set
Timers(longest) ==
  [id : 1..MaxCalls, due : 1..(MaxTime + longest), now : 1..MaxTime]

ThrottleInit ==
  /\ InlinerIdle
  /\ SliderConstructed
  /\ ZoomConstructed(Breakpoint + 1, <<>>)
  /\ RunnerConstructed(NoDirectory,
                       [m \in Modes |-> [quiet |-> FALSE, verbose |-> FALSE]])
  /\ MenuConstructed(<<>>)
  /\ clock = 1
  /\ DebounceConstructed(1)
  /\ \E th \in 1..MaxThreshold : ThrottleConstructed(th)

ThrottleNext ==
  \/ Tick
  \/ Throttled
  \/ \E t \in Timers(MaxThreshold) : DeferTimerFires(t)

ThrottleSpec == ThrottleInit /\ [][ThrottleNext]_vars

\* the wrapper of debounce setting a timer without clearing the one before
Debounced_KeepsTimer ==
  /\ Len(debounceCalls) < MaxCalls
  /\ debounceCalls' = Append(debounceCalls, clock)
  /\ debounceTimers' =
       debounceTimers \cup {Timer(Len(debounceCalls) + 1, delay)}
  /\ timer' = Len(debounceCalls) + 1
  /\ UNCHANGED <<notDebounced, clock, delay, debounceRuns>>

\* the wrapper debounce returns, called with new arguments; the arguments
\* are named by the number of the call
Debounced ==
  /\ Len(debounceCalls) < MaxCalls
  /\ debounceCalls' = Append(debounceCalls, clock)
  /\ debounceTimers' =
       Cleared(debounceTimers, timer)
         \cup {Timer(Len(debounceCalls) + 1, delay)}
  /\ timer' = Len(debounceCalls) + 1
  /\ UNCHANGED <<notDebounced, clock, delay, debounceRuns>>

\* the callback of a timer of debounce
TimerFires(t) ==
  /\ t \in debounceTimers
  /\ t.due <= clock
  /\ debounceTimers' = debounceTimers \ {t}
  /\ debounceRuns' = Append(debounceRuns, Run(t.id, Len(debounceCalls)))
  /\ UNCHANGED <<notDebounced, clock, delay, timer, debounceCalls>>

DebounceInit ==
  /\ InlinerIdle
  /\ SliderConstructed
  /\ ZoomConstructed(Breakpoint + 1, <<>>)
  /\ RunnerConstructed(NoDirectory,
                       [m \in Modes |-> [quiet |-> FALSE, verbose |-> FALSE]])
  /\ MenuConstructed(<<>>)
  /\ clock = 1
  /\ ThrottleConstructed(1)
  /\ \E d \in 1..MaxDelay : DebounceConstructed(d)

DebounceNext ==
  \/ Tick
  \/ Debounced
  \/ \E t \in Timers(MaxDelay) : TimerFires(t)

DebounceSpec == DebounceInit /\ [][DebounceNext]_vars

----------------------------------------------------------------------------
(* The mobile menu: MenuOverlayPhone and its listeners *)

\* the elements inside the overlay that 'a, button, [tabindex]' selects
Overlays ==
  UNION {[1..n -> {"a", "button", "tabindex"}] : n \in 0..MaxElements}

\* element.focus(): the element takes the focus if it can be focused
Focus(element) == activeElement' \in {element, activeElement}

\* updateMenuState leaving the tabindex of the elements as it is
updateMenuState_KeepsTabindex ==
  /\ checked' = isMenuOpen'
  /\ ariaExpanded' = BoolString(isMenuOpen')
  /\ ariaHidden' = BoolString(~isMenuOpen')
  /\ UNCHANGED tabindex

\* updateMenuState, run once isMenuOpen is set: the checkbox, the ARIA
\* attributes and the tabindex of the elements
updateMenuState ==
  /\ checked' = isMenuOpen'
  /\ ariaExpanded' = BoolString(isMenuOpen')
  /\ ariaHidden' = BoolString(~isMenuOpen')
  /\ tabindex' = [e \in DOMAIN menuElements |->
                    IF isMenuOpen' THEN "0" ELSE "-1"]

\* toggleMenu; updateMenuState ends with menuOverlay.focus() for an open menu
toggleMenu ==
  /\ isMenuOpen' = ~isMenuOpen
  /\ updateMenuState
  /\ IF isMenuOpen'
     THEN Focus(Element("menu-overlay", 0))
     ELSE UNCHANGED activeElement

\* closeMenu; updateMenuState leaves the focus of a closed menu, which then
\* goes to the hamburger
closeMenu ==
  /\ isMenuOpen' = FALSE
  /\ updateMenuState
  /\ Focus(Element("hamburger-menu", 0))

\* no listener changes the menu
MenuKept ==
  UNCHANGED <<isMenuOpen, checked, ariaExpanded, ariaHidden, tabindex,
              activeElement>>

handleHamburgerClick ==
  /\ menuEvent' = Event("click", "hamburger-menu", 0, "")
  /\ toggleMenu
  /\ UNCHANGED <<notMenu, menuElements>>

handleHamburgerKeydown(key) ==
  /\ menuEvent' = Event("keydown", "hamburger-menu", 0, key)
  /\ IF key = "Enter" \/ key = " " THEN toggleMenu ELSE MenuKept
  /\ UNCHANGED <<notMenu, menuElements>>

handleCloseClick ==
  /\ menuEvent' = Event("click", "close-menu-overlay", 0, "")
  /\ closeMenu
  /\ UNCHANGED <<notMenu, menuElements>>

handleCloseKeydown(key) ==
  /\ menuEvent' = Event("keydown", "close-menu-overlay", 0, key)
  /\ IF key = "Enter" \/ key = " " THEN closeMenu ELSE MenuKept
  /\ UNCHANGED <<notMenu, menuElements>>

handleOverlayKeydown(key) ==
  /\ menuEvent' = Event("keydown", "menu-overlay", 0, key)
  /\ IF key = "Escape" THEN closeMenu ELSE MenuKept
  /\ UNCHANGED <<notMenu, menuElements>>

\* the click listener of the links in the overlay
handleLinkClick(e) ==
  /\ e \in DOMAIN menuElements
  /\ menuElements[e] = "a"
  /\ menuEvent' = Event("click", "a", e, "")
  /\ closeMenu
  /\ UNCHANGED <<notMenu, menuElements>>

\* the elements setupFocusTrap selects: 'a, button, [tabindex="0"]', when
\* the menu has just been initialised and every tabindex is "-1"
Trapped == {e \in DOMAIN menuElements : menuElements[e] \in {"a", "button"}}

\* setupFocusTrap: the keydown listeners of the first and the last element,
\* for the Tab key
TrapKeydown(e, shiftKey) ==
  /\ Trapped # {}
  /\ e \in {Min(Trapped), Max(Trapped)}
  /\ menuEvent' = Event("keydown", "a, button", e, "Tab")
  /\ IF e = Min(Trapped) /\ shiftKey
     THEN Focus(Element("overlay-child", Max(Trapped)))
     ELSE IF e = Max(Trapped) /\ ~shiftKey
     THEN Focus(Element("overlay-child", Min(Trapped)))
     ELSE UNCHANGED activeElement
  /\ UNCHANGED <<isMenuOpen, checked, ariaExpanded, ariaHidden, tabindex>>
  /\ UNCHANGED <<notMenu, menuElements>>

MenuInit ==
  /\ InlinerIdle
  /\ SliderConstructed
  /\ ZoomConstructed(Breakpoint + 1, <<>>)
  /\ RunnerConstructed(NoDirectory,
                       [m \in Modes |-> [quiet |-> FALSE, verbose |-> FALSE]])
  /\ TimersConstructed
  /\ \E els \in Overlays : MenuConstructed(els)

MenuNext ==
  \/ handleHamburgerClick
  \/ \E key \in Keys : handleHamburgerKeydown(key)
  \/ handleCloseClick
  \/ \E key \in Keys : handleCloseKeydown(key)
  \/ \E key \in Keys : handleOverlayKeydown(key)
  \/ \E e \in 1..MaxElements : handleLinkClick(e)
  \/ \E e \in 1..MaxElements, shiftKey \in BOOLEAN : TrapKeydown(e, shiftKey)

MenuSpec == MenuInit /\ [][MenuNext]_vars

\* the step machine and the function agree on what a call returns
Agreement == pc = "done" => result = replacePlaceholder(content, 1)

----------------------------------------------------------------------------
(* Vocabulary of the properties *)

Cats == {<<"a">>, <<"b">>}

\* the tokens by their parts: kind, category, name (the category when absent)
Vocabulary ==
  {[tok |-> Tok2(k, c), k |-> k, c |-> c, n |-> c] : k \in Kinds, c \in Cats}
    \cup {[tok |-> Tok3(k, c, n), k |-> k, c |-> c, n |-> n] :
            k \in Kinds, c \in Cats, n \in Cats}

VPath(v) == FragmentPath(v.k, v.c, v.n)

HasFragment(p) == p \in DOMAIN files /\ files[p].st # "absent"
IsFile(p) == p \in DOMAIN files /\ files[p].st = "file"
FragmentText(p) == files[p].text

\* text without braces and colons around a token
Plain == {<<>>, <<"x">>, <<"\n">>}

\* '<!-- START <path> -->' and '<!-- END <path> -->'
BannerStart(p) == startOpen \o p \o <<" ","-","-",">">>
BannerEnd(p) == endOpen \o p \o <<" ","-","-",">">>
NL == <<"\n">>

\* some substring of s has the shape of the pattern (either alternative)
ContainsToken(s) ==
  \E i \in 1..Len(s), k \in Kinds :
    /\ HasAt(s, i, <<"{">> \o k \o <<":","{">>)
    /\ LET j == i + Len(k) + 3 IN
       \/ \E e \in j..Len(s) :
            /\ HasAt(s, e, <<"}","}">>)
            /\ \A x \in j..(e - 1) : IsCategoryChar(s[x])
       \/ \E q \in (j + 1)..Len(s) :
            /\ HasAt(s, q, <<":","{">>)
            /\ \E r \in (q + 3)..Len(s) :
                 /\ HasAt(s, r, <<"}","}","}">>)
                 /\ \A x \in j..(r - 1) : ~IsLineTerminator(s[x])

\* s holds the token of a fragment file that can be read
ContainsResolvable(s) ==
  \E v \in Vocabulary, i \in 1..Len(s) : IsFile(VPath(v)) /\ HasAt(s, i, v.tok)

IsSuffix(t, s) == Len(t) <= Len(s) /\ SubSeq(s, Len(s) - Len(t) + 1, Len(s)) = t

\* no fragment that can be read leads back to itself
Acyclic == ~(IsFile(P_svg) /\ IsFile(P_bb) /\ FragmentText(P_bb) = Tok2(svg, <<"a">>))

----------------------------------------------------------------------------
(* Properties *)

\* C1: the call on exactly the two-part token {app:{c}} whose fragment
\* components/app/c/c.html exists with content X returns X after the
\* recursive resolution of the placeholders inside X, nothing before or
\* after it.
C1_TwoPartReturnsFragment ==
  \A c \in Cats :
    (pc = "done" /\ content = Tok2(app, c) /\ IsFile(FragmentPath(app, c, c)))
      => result = replacePlaceholder(FragmentText(FragmentPath(app, c, c)), 2)

\* {app:{a}} with a/a.html = 'x{app:{b}}' and b/b.html = 'a}}' gave 'xa}}'
C1_Witness ==
  /\ pc = "done"
  /\ content = Tok2(app, <<"a">>)
  /\ IsFile(P_aa)
  /\ IsFile(P_bb)
  /\ result = <<"x","a","}","}">>

\* C2: a placeholder token whose fragment path does not exist stays in the
\* output as it is, at every nesting depth, and showError is not called for
\* it; the call on exactly such a token returns the token.
C2_MissingKeptVerbatim ==
  /\ [](\A v \in Vocabulary :
          (pc = "done" /\ content = v.tok /\ ~HasFragment(VPath(v)))
            => (result = v.tok /\ log = <<>>))
  /\ [][\A v \in Vocabulary :
          (AtMatch /\ string = v.tok /\ ~HasFragment(VPath(v)))
            => /\ pc' = "running"
               /\ Len(stack') = Len(stack)
               /\ stack'[Len(stack)].out = Top.out \o Gap \o v.tok
               /\ log' = log]_vars

\* {app:{a}} while components/app/a/a.html is missing and b/b.html is there
C2_Witness ==
  /\ pc = "done"
  /\ content = Tok2(app, <<"a">>)
  /\ ~HasFragment(P_aa)
  /\ HasFragment(P_bb)
  /\ result = Tok2(app, <<"a">>)
  /\ log = <<>>

ScanFindsTokens == pc = "done" => (ContainsToken(content) <=> Matches(content, 1) # <<>>)

\* t with its first occurrence of the token tok replaced by y
Inlined(t, tok, y) ==
  LET at == {i \in 1..Len(t) : HasAt(t, i, tok)} IN
  IF at = {} THEN t
  ELSE SubSeq(t, 1, Min(at) - 1) \o y \o SubSeq(t, Min(at) + Len(tok), Len(t))

\* the token of fragment A in a document, A's content holding the token of
\* fragment B, B's content Y without placeholders: what the call returns
NestedCase(pre, post, a, wrapStart, wrapEnd) ==
  (/\ content = pre \o a.tok \o post
   /\ IsFile(VPath(a))
   /\ IsFile(P_bb)
   /\ ~ContainsToken(FragmentText(P_bb)))
    => result = pre \o wrapStart
                  \o Inlined(FragmentText(VPath(a)), Tok2(app, <<"b">>),
                             FragmentText(P_bb))
                  \o wrapEnd \o post

V_app_a == [tok |-> Tok2(app, <<"a">>), k |-> app, c |-> <<"a">>, n |-> <<"a">>]
V_svg_a == [tok |-> Tok2(svg, <<"a">>), k |-> svg, c |-> <<"a">>, n |-> <<"a">>]

\* C4 (as amended): a document holding the token of A, A holding the token
\* of B, B's content Y without placeholders, resolves to A's content with B's
\* token replaced by Y; and with an acyclic fragment tree no nested call is
\* ever given up, so every token the scan of a fragment's content finds is
\* replaced.
C4_NestedResolved ==
  pc = "done" =>
    /\ \A pre \in Plain, post \in Plain :
         /\ NestedCase(pre, post, V_app_a, <<>>, <<>>)
         /\ NestedCase(pre, post, V_svg_a,
                       BannerStart(P_svg) \o NL, BannerEnd(P_svg) \o NL)
    /\ Acyclic => \A i \in 1..Len(log) : log[i].error # "stack"

\* '{svg:{a}}x': the svg fragment holds '{app:{{app:{b}}', b/b.html is 'a}}'
C4_Witness ==
  /\ pc = "done"
  /\ content = Tok2(svg, <<"a">>) \o <<"x">>
  /\ IsFile(P_svg)
  /\ IsFile(P_bb)
  /\ FragmentText(P_bb) = <<"a","}","}">>
  /\ result = BannerStart(P_svg) \o NL \o Tok2(app, <<"a">>)
                \o BannerEnd(P_svg) \o NL \o <<"x">>

\* C4 as stated: besides the above, no token of a readable fragment remains
\* in the text substituted for a token, the fragment tree being acyclic.
C4_AsStated ==
  /\ C4_NestedResolved
  /\ \A v \in Vocabulary :
       (pc = "done" /\ Acyclic /\ content = v.tok /\ IsFile(VPath(v)))
         => ~ContainsResolvable(result)

\* C5 (as amended): the call on {svg:{a}} whose fragment exists returns
\* '<!-- START components/app/_svg/a/a.svg -->', a line feed, the resolved
\* fragment content, '<!-- END components/app/_svg/a/a.svg -->', a line feed.
C5_SvgBannerLines ==
  (pc = "done" /\ content = Tok2(svg, <<"a">>) /\ IsFile(P_svg))
    => result = BannerStart(P_svg) \o NL
                  \o replacePlaceholder(FragmentText(P_svg), 2)
                  \o BannerEnd(P_svg) \o NL

\* {svg:{a}} with the svg fragment there and b/b.html missing
C5_Witness ==
  /\ pc = "done"
  /\ content = Tok2(svg, <<"a">>)
  /\ IsFile(P_svg)
  /\ ~HasFragment(P_bb)
  /\ result = BannerStart(P_svg) \o NL \o FragmentText(P_svg)
                \o BannerEnd(P_svg) \o NL

\* C5 as stated: the two comments and the content, no other character
C5_AsStated ==
  (pc = "done" /\ content = Tok2(svg, <<"a">>) /\ IsFile(P_svg))
    => result = BannerStart(P_svg)
                  \o replacePlaceholder(FragmentText(P_svg), 2)
                  \o BannerEnd(P_svg)

\* the text a fragment is given to the nested call as: inside the START and
\* END comment lines for kind svg, alone for app and deferred
Wrapped(v, t) ==
  IF v.k = svg
  THEN BannerStart(VPath(v)) \o NL \o t \o BannerEnd(VPath(v)) \o NL
  ELSE t

\* C6: the START/END banner is put around the fragment content if and only
\* if the token's kind is svg: at every nesting depth the nested call is given
\* the bare file content for app and deferred and the banner-wrapped content
\* for svg, and the call on one token returns accordingly.
C6_BannerIffSvg ==
  /\ \A d \in 2..Len(stack) :
       /\ \E t \in {v.tok : v \in Vocabulary} \cup {BarTok, TraversalTok} :
            IsSuffix(t, SubSeq(stack[d - 1].src, 1, stack[d - 1].pos - 1))
       /\ \A v \in Vocabulary :
            IsSuffix(v.tok, SubSeq(stack[d - 1].src, 1, stack[d - 1].pos - 1))
              => stack[d].src = Wrapped(v, FragmentText(VPath(v)))
       /\ IsSuffix(BarTok, SubSeq(stack[d - 1].src, 1, stack[d - 1].pos - 1))
            => stack[d].src = FragmentText(P_bar)
       /\ IsSuffix(TraversalTok, SubSeq(stack[d - 1].src, 1, stack[d - 1].pos - 1))
            => stack[d].src = FragmentText(P_out)
  /\ \A v \in Vocabulary :
       (pc = "done" /\ content = v.tok /\ IsFile(VPath(v)))
         => result = Wrapped(v, replacePlaceholder(FragmentText(VPath(v)), 2))

\* {app:{b}} -> b/b.html = '{svg:{a}}' -> the svg fragment, two calls deep
C6_Witness ==
  /\ Len(stack) = 3
  /\ stack[1].src = Tok2(app, <<"b">>)
  /\ stack[2].src = Tok2(svg, <<"a">>)
  /\ stack[3].src = BannerStart(P_svg) \o NL \o FragmentText(P_svg)
                      \o BannerEnd(P_svg) \o NL

\* C7: the path tested and read for a token is
\* components/<mapped-kind>/<category>/<file><ext>: 'app' or 'app/_<kind>',
\* the name or else the category, '.svg' for svg and '.html' otherwise; the
\* token is substituted exactly when the file at that path can be read.
C7_FragmentPath ==
  /\ AtMatch =>
       \A v \in Vocabulary : string = v.tok => filepath(string) = VPath(v)
  /\ pc = "done" =>
       \A v \in Vocabulary :
         content = v.tok => (result # content <=> IsFile(VPath(v)))

\* {deferred:{a:{b}}} read components/app/_deferred/a/b.html
C7_Witness ==
  /\ pc = "done"
  /\ content = Tok3(deferred, <<"a">>, <<"b">>)
  /\ P_dab = <<"c","o","m","p","o","n","e","n","t","s","/","a","p","p","/",
               "_","d","e","f","e","r","r","e","d","/","a","/","b",
               ".","h","t","m","l">>
  /\ IsFile(P_dab)
  /\ ~HasFragment(P_aa)
  /\ result = <<"D">>

Beside ==
  Plain \cup {v.tok : v \in {w \in Vocabulary : w.n = w.c /\ w.tok \in Pieces}}
    \cup {Tok3(deferred, <<"a">>, <<"b">>)}

ReadErrors == SelectSeq(log, LAMBDA e : e.error = "read")

Count(b) == IF b THEN 1 ELSE 0

\* C9: a token whose fragment path exists but cannot be read is caught by
\* the callback: showError reports it, that occurrence of the token stays as
\* it is, the scan goes on, the other tokens of the input are resolved and
\* the call returns its string.
C9_ReadFailureCaught ==
  /\ [](\A l \in Beside, r \in Beside :
          (/\ pc = "done"
           /\ files[P_aa].st = "unreadable"
           /\ content = l \o Tok2(app, <<"a">>) \o r
           /\ ~(l = Tok3(deferred, <<"a">>, <<"b">>) /\ l = r))
            => /\ result = replacePlaceholder(l, 1) \o Tok2(app, <<"a">>)
                             \o replacePlaceholder(r, 1)
               /\ \A i \in 1..Len(ReadErrors) : ReadErrors[i].path = P_aa
               /\ Len(ReadErrors) = 1 + Count(l = Tok2(app, <<"a">>))
                                      + Count(r = Tok2(app, <<"a">>)))
  /\ [][(AtMatch /\ string = Tok2(app, <<"a">>)
           /\ files[P_aa].st = "unreadable")
          => /\ pc' = "running"
             /\ Len(stack') = Len(stack)
             /\ stack'[Len(stack)].out = Top.out \o Gap \o Tok2(app, <<"a">>)
             /\ log' = Append(log, [error |-> "read", path |-> P_aa])]_vars

\* '{app:{a}}{deferred:{a:{b}}}' with a/a.html unreadable became '{app:{a}}D'
C9_Witness ==
  /\ pc = "done"
  /\ files[P_aa].st = "unreadable"
  /\ content = Tok2(app, <<"a">>) \o Tok3(deferred, <<"a">>, <<"b">>)
  /\ result = Tok2(app, <<"a">>) \o <<"D">>
  /\ log = <<[error |-> "read", path |-> P_aa]>>

\* a document that leads into the cycle b/b.html -> a/a.svg -> b/b.html
CycleReached ==
  /\ ~Acyclic
  /\ content \in {Tok2(app, <<"b">>), Tok2(svg, <<"a">>)}

\* a fragment file has no more matches than characters
MostMatches == Max({Len(files[p].text) : p \in FragPaths})

RECURSIVE CallBound(_)
\* the steps a call at nesting depth d takes at most, its return included
CallBound(d) ==
  IF d > StackLimit THEN 0
  ELSE 1 + MostMatches * (1 + CallBound(d + 1))

RECURSIVE RankFrom(_)
\* the steps the calls from depth i up still take at most
RankFrom(i) ==
  IF i > Len(stack) THEN 0
  ELSE 1 + Len(stack[i].todo) * (1 + CallBound(i + 1)) + RankFrom(i + 1)

Rank == RankFrom(1)

\* C10 (as amended): every call returns, with or without a cycle among the
\* fragment files: a running call can always take a step, and every step
\* lowers a bound on the steps left. The nesting never passes what the call
\* stack holds; when a cycle is reached the error of the call that cannot
\* start is caught and reported, and the token it stood for is still in the
\* returned string.
C10_EveryCallReturns ==
  /\ [](pc = "running" => (stack # <<>> /\ Rank > 0))
  /\ [][pc = "running" => Rank' < Rank]_vars
  /\ [](Len(stack) <= StackLimit)
  /\ []((pc = "done" /\ CycleReached)
          => /\ \E i \in 1..Len(log) : log[i].error = "stack"
             /\ ContainsResolvable(result))

\* '{app:{b}}' with b/b.html = '{svg:{a}}' and a/a.svg holding '{app:{b}}'
C10_Witness ==
  /\ pc = "done"
  /\ ~Acyclic
  /\ content = Tok2(app, <<"b">>)
  /\ Len(log) = 1
  /\ log[1].error = "stack"

\* C10 as stated, its second half: when a cycle is reached from the input
\* the call never returns
C10_AsStated == CycleReached => pc # "done"

\* C11: replacePlaceholder writes no file. No step changes the fragment
\* tree; while a call runs, and when it has returned, the destination file
\* is as it was; what a call changes is its own result and the error log;
\* the destination file is written by replaceHtml alone, after the call, and
\* holds the string the call returned.
C11_CallWritesNoFile ==
  /\ [][files' = files]_vars
  /\ [][(pc = "running" \/ pc' = "running") => build' = build]_vars
  /\ [][pc = "running" => content' = content]_vars
  /\ [](pc \in {"idle", "running", "done"} => build = Absent)
  /\ [][build' # build
          => \/ pc = "done" /\ pc' = "written" /\ build' = File(result)
             \/ pc = "written" /\ pc' = "idle"]_vars

\* '{app:{a}}{app:{b}}' with a/a.html unreadable and b/b.html = 'a}}': the
\* call has returned after one failure and one substitution
C11_Witness ==
  /\ pc = "done"
  /\ files[P_aa].st = "unreadable"
  /\ content = Tok2(app, <<"a">>) \o Tok2(app, <<"b">>)
  /\ result = Tok2(app, <<"a">>) \o <<"a","}","}">>
  /\ log # <<>>
  /\ build = Absent

\* C12 (as amended): with fragment files that do not include one another in
\* a cycle, every call, the outermost one after any calls before it and a
\* nested one inside any calls in progress, returns what a call on its input
\* alone returns; the outermost call does so with a cycle as well.
C12_CallsIndependent ==
  /\ (AtEnd /\ Acyclic) => Returned = replacePlaceholder(Top.src, 1)
  /\ pc = "done" => result = replacePlaceholder(content, 1)

\* the call on a/a.html = 'x{app:{b}}', nested in the call on 'x{app:{a}}',
\* is about to return 'xa}}'
C12_Witness ==
  /\ AtEnd
  /\ Acyclic
  /\ Len(stack) = 2
  /\ content = <<"x">> \o Tok2(app, <<"a">>)
  /\ Top.src = <<"x">> \o Tok2(app, <<"b">>)
  /\ Returned = <<"x","a","}","}">>
  /\ Returned = replacePlaceholder(Top.src, 1)

\* C12 as stated: every call returns what a call on its input alone returns
C12_AsStated == AtEnd => Returned = replacePlaceholder(Top.src, 1)

\* C13: a second run can change the result of the first. With b/b.html =
\* 'a}}' and a/a.html readable, the call on '{app:{{app:{b}}' returns
\* '{app:{a}}': the token it returns came into being by the substitution,
\* and a run on the returned string replaces it.
C13_SecondRunDiffers ==
  (/\ pc = "done"
   /\ content = <<"{","a","p","p",":","{">> \o Tok2(app, <<"b">>)
   /\ IsFile(P_bb)
   /\ FragmentText(P_bb) = <<"a","}","}">>
   /\ IsFile(P_aa))
    => /\ result = Tok2(app, <<"a">>)
       /\ replacePlaceholder(result, 1) # result
       /\ replacePlaceholder(result, 1)
            = replacePlaceholder(FragmentText(P_aa), 2)

C13_Witness ==
  /\ pc = "done"
  /\ content = <<"{","a","p","p",":","{">> \o Tok2(app, <<"b">>)
  /\ IsFile(P_aa)
  /\ result = Tok2(app, <<"a">>)
  /\ replacePlaceholder(result, 1) = <<"x","a","}","}">>

\* the matches of s that a run replaces by the content of a fragment file
Replaced(s) ==
  LET found == Matches(s, 1) IN
  {i \in 1..Len(found) :
     LET p == filepath(SubSeq(s, found[i][1], found[i][2])) IN
     existsSync(p) /\ Readable(p)}

\* C14 (as amended): a run on a returned string is a no-op whenever every
\* match of the pattern in it names a fragment file that does not exist or
\* cannot be read, and so whenever it has no match at all.
C14_RerunNoOpWhenNothingReplaced ==
  (pc = "done" /\ Replaced(result) = {})
    => replacePlaceholder(result, 1) = result

\* '{app:{a}}' without a/a.html: returned as it is, by the second run too
C14_Witness ==
  /\ pc = "done"
  /\ files[P_aa].st = "absent"
  /\ content = Tok2(app, <<"a">>)
  /\ result = Tok2(app, <<"a">>)
  /\ Matches(result, 1) # <<>>
  /\ Replaced(result) = {}
  /\ replacePlaceholder(result, 1) = result

\* C14 as stated: a no-op second run means the returned string has no match
C14_AsStated ==
  (pc = "done" /\ replacePlaceholder(result, 1) = result)
    => Matches(result, 1) = <<>>

\* the input whose token comes into being by a substitution: '{app:{' before
\* '{app:{b}}', with b/b.html = 'a}}' and a/a.html readable
JoinedCase ==
  /\ content = <<"{","a","p","p",":","{">> \o Tok2(app, <<"b">>)
  /\ IsFile(P_bb)
  /\ FragmentText(P_bb) = <<"a","}","}">>
  /\ IsFile(P_aa)

\* C15: the matches a call works through are those of the string it
\* received, found before the first substitution; that string never
\* changes while the call is in progress, what the nested calls return goes
\* to the output alone; so the token that the returned text forms with the
\* text before it is still in the result.
C15_SinglePass ==
  /\ [](\A i \in 1..Len(stack) :
          /\ IsSuffix(stack[i].todo, Matches(stack[i].src, 1))
          /\ \A k \in 1..Len(stack[i].todo) : stack[i].todo[k][1] >= stack[i].pos)
  /\ [][(pc = "running" /\ pc' = "running")
          => \A i \in 1..Min({Len(stack), Len(stack')}) :
               stack'[i].src = stack[i].src]_vars
  /\ []((pc = "done" /\ JoinedCase)
          => /\ result = Tok2(app, <<"a">>)
             /\ Replaced(result) # {})

C15_Witness ==
  /\ pc = "done"
  /\ JoinedCase
  /\ result = Tok2(app, <<"a">>)
  /\ Replaced(result) = {1}

\* the tokens of the inputs, and token-free text
TokensAndText ==
  Plain \cup {Tok2(app, <<"a">>), Tok2(app, <<"b">>), Tok2(svg, <<"a">>),
              Tok3(deferred, <<"a">>, <<"b">>)}

\* C16 as stated: each token of an input is replaced by its own resolution,
\* whatever stands beside it
C16_AsStated ==
  \A l \in TokensAndText, r \in TokensAndText :
    (pc = "done" /\ content = l \o r)
      => result = replacePlaceholder(l, 1) \o replacePlaceholder(r, 1)

\* a normalised relative path below the components folder
InsideComponents(p) == HasAt(p, 1, components \o <<"/">>)

\* C17 as stated: every path the callback tests or reads lies in the
\* components tree, and no file from outside it enters a result
C17_AsStated ==
  /\ AtMatch => InsideComponents(filepath(string))
  /\ (pc = "done" /\ content = TraversalTok) => result = content

\* C18 as stated: text that is not a token of the forms '{kind:{word-or-dash}}'
\* and '{kind:{word}:{word}}' is returned unchanged whatever files exist; so
\* are a token-like text with a bar for its category and one whose category
\* has dots and a slash
C18_AsStated ==
  (pc = "done" /\ content \in {BarTok, TraversalTok}) => result = content

\* C19: while the user has paused the slider (isPlaying is false) the last
\* call of HeroSwiper.autoplay was stop, whatever clicks and observer
\* callbacks came before.
C19_PausedMeansStopped ==
  ~isPlaying => (commands # <<>> /\ LastOf(commands) = "stop")

\* paused by a click, then the slider came into view: no call followed
C19_Witness ==
  /\ ~isPlaying
  /\ lastEntry = "visible"
  /\ commands = <<"stop">>
  /\ \E b \in Buttons : textContent[b] = "play"

\* C20 as stated: while the last observer entry reported the slider as not
\* intersecting, the last call of HeroSwiper.autoplay was stop
C20_AsStated ==
  lastEntry = "hidden" => (commands # <<>> /\ LastOf(commands) = "stop")

----------------------------------------------------------------------------
(* Image zoom *)

\* the step is the click listener of a thumbnail
ThumbnailClicked ==
  /\ zoomEvent'.type = "click"
  /\ zoomEvent'.target = "thumbnail"

\* the thumbnail the step's click went to
ClickedImage == thumbnails[zoomEvent'.index]

----------------------------------------------------------------------------
(* The task scripts *)

Reported ==
  \E i \in DOMAIN console : console[i] \in {"finished", "aborting"}

\* C23 (as stated): every task started through showScriptInfo with a console
\* that is not quiet eventually writes the 'Finished task' or the 'Aborting
\* task' message, on every branch of the task.
C23_AsStated ==
  (task # "none" /\ ~configConsole[mode].quiet) ~> Reported

----------------------------------------------------------------------------
(* throttle and debounce *)

\* C24 (as stated): any two invocations of func through a wrapper of
\* throttle(func, threshold) are at least threshold milliseconds apart,
\* immediate and deferred invocations together.
C24_AsStated ==
  \A i, j \in DOMAIN throttleRuns :
    i < j => throttleRuns[j].at >= throttleRuns[i].at + threshold

\* C25 (as stated): once no timer of a throttle wrapper is pending, the last
\* invocation of func has the arguments of the most recent wrapper call; a
\* timer set by an older call never runs func after a newer call has run it,
\* and the recorded time of the last execution never moves backwards.
C25_AsStated ==
  [][/\ (throttleTimers' = {} /\ throttleRuns' # <<>>) =>
          LastOf(throttleRuns').args = throttleCalls'
     /\ \A i, j \in DOMAIN throttleRuns' :
          i < j => throttleRuns'[i].args < throttleRuns'[j].args
     /\ last' >= last]_vars

\* the invocations of func with the arguments of call c
RunsOf(c) == {i \in DOMAIN debounceRuns : debounceRuns[i].args = c}

\* call c ends a burst: no call follows it in less than the delay
EndsBurst(c) ==
  c = Len(debounceCalls) \/ debounceCalls[c + 1] >= debounceCalls[c] + delay

\* C26 (amended): at most one timer of a debounce wrapper is pending; func
\* is invoked only when delay milliseconds have passed since the most recent
\* wrapper call, with no call in between; a burst of calls each less than
\* delay apart produces at most one invocation of func, with the arguments
\* of the last call of the burst, and exactly one once no timer is pending
\* and no call has followed the burst.
C26_OneRunPerBurst ==
  /\ Cardinality(debounceTimers) <= 1
  /\ \A i \in DOMAIN debounceRuns :
       /\ debounceRuns[i].calls = debounceRuns[i].args
       /\ debounceRuns[i].at >= debounceCalls[debounceRuns[i].args] + delay
  /\ \A c \in DOMAIN debounceCalls :
       /\ Cardinality(RunsOf(c)) <= 1
       /\ ~EndsBurst(c) => RunsOf(c) = {}
  /\ (debounceTimers = {} /\ debounceCalls # <<>>) =>
       Cardinality(RunsOf(Len(debounceCalls))) = 1

\* C26 (as stated): at most one timer of a debounce wrapper is pending; func
\* is invoked only when delay milliseconds have passed since the most recent
\* wrapper call, with no call in between; a burst of calls each less than
\* delay apart produces exactly one invocation of func, with the arguments
\* of the last call of the burst.
C26_AsStated ==
  /\ C26_OneRunPerBurst
  /\ \A c \in DOMAIN debounceCalls :
       (c < Len(debounceCalls) /\ EndsBurst(c)) =>
         Cardinality(RunsOf(c)) = 1

\* C26 witness: a burst of two calls less than delay apart has led to one
\* invocation, with the arguments of the second call
C26_Witness ==
  /\ Len(debounceCalls) = 2
  /\ debounceCalls[2] < debounceCalls[1] + delay
  /\ debounceTimers = {}
  /\ Len(debounceRuns) = 1
  /\ debounceRuns[1].args = 2

----------------------------------------------------------------------------
(* The mobile menu *)

\* the checkbox, the ARIA attributes and every tabindex follow isMenuOpen
MenuMirrors ==
  /\ checked = isMenuOpen
  /\ ariaExpanded = (IF isMenuOpen THEN "true" ELSE "false")
  /\ ariaHidden = (IF isMenuOpen THEN "false" ELSE "true")
  /\ DOMAIN tabindex = DOMAIN menuElements
  /\ \A e \in DOMAIN tabindex :
       tabindex[e] = (IF isMenuOpen THEN "0" ELSE "-1")

\* the last event was a close action
CloseAction ==
  \/ /\ menuEvent.type = "click"
     /\ menuEvent.target \in {"close-menu-overlay", "a"}
  \/ /\ menuEvent.type = "keydown"
     /\ menuEvent.target = "close-menu-overlay"
     /\ menuEvent.key \in {"Enter", " "}
  \/ /\ menuEvent.type = "keydown"
     /\ menuEvent.target = "menu-overlay"
     /\ menuEvent.key = "Escape"

\* the last event was a toggle of the hamburger
ToggleAction ==
  /\ menuEvent.target = "hamburger-menu"
  /\ menuEvent.type = "click" \/ menuEvent.key \in {"Enter", " "}

====
